---- MODULE Spec2Model ----
(***************************************************************************)
(* Model of the DSA BM25 front ends:                                       *)
(*   src/dsa_bm25_server.py  the FastAPI server (module-level load, then   *)
(*                           /search handlers run concurrently)            *)
(*   src/query_bm25.py       the command-line tool (main, load_meta,       *)
(*                           retrieve, interactive_loop)                   *)
(* Both read the same index directory: the BM25S index files and the       *)
(* sidecar meta.jsonl.  bm25s itself is a third-party library; its calls   *)
(* (tokenize, BM25.load, retrieve) are modelled by what the call sites     *)
(* rely on: retrieve returns arrays of shape (1, k); callers ask k >= 1.    *)
(***************************************************************************)
EXTENDS Integers, Sequences, FiniteSets, TLC

\* ------------------------------------------------------------------ bounds
MaxLines == 2       \* lines of meta.jsonl
MaxDocs == 2        \* documents in the index (N)
MaxK == 3           \* largest topk a caller asks for

\* argparse default of --topk (query_bm25.py) / SearchRequest.topk
TopkDefault == 10

\* ------------------------------------------------------------- JSON values
\* A doc_id value as json.loads yields it: absent key, an integer, or a string
\* of decimal digits.  Integers and strings both keep their digits, so int()
\* and the comparisons of list.sort are computed, not assumed.
Absent == [t |-> "absent", digits |-> <<>>]
IntId(ds) == [t |-> "int", digits |-> ds]
StrId(ds) == [t |-> "str", digits |-> ds]

\* One line of meta.jsonl.
BlankLine == [kind |-> "blank", id |-> Absent]
BadLine == [kind |-> "bad", id |-> Absent]
RecLine(id) == [kind |-> "rec", id |-> id]

\* Lines of the sidecars the serving model starts from.
ServeLines ==
  {BlankLine, BadLine, RecLine(IntId(<<0>>)), RecLine(IntId(<<1>>))}

\* Lines of the sidecars the load model starts from.
LoadLines ==
  {BlankLine, BadLine, RecLine(Absent),
   RecLine(IntId(<<0>>)), RecLine(IntId(<<1>>)), RecLine(IntId(<<2>>)),
   RecLine(IntId(<<1, 0>>)), RecLine(StrId(<<9>>)), RecLine(StrId(<<1, 0>>))}

SeqsUpTo(S, n) == UNION {[1..m -> S] : m \in 0..n}

\* json.loads(line) of a record line: the object, with the line it came from
\* standing for the rest of its payload (entity_name, description, facts).
ParseLine(l, i) == [doc_id |-> l.id, line |-> i]

\* The {} the server substitutes for a doc index outside metas.
EmptyMeta == [doc_id |-> Absent, line |-> 0]

\* int(x) of a digit sequence.
RECURSIVE DigitsValue(_)
DigitsValue(ds) ==
  IF ds = <<>> THEN 0
  ELSE 10 * DigitsValue(SubSeq(ds, 1, Len(ds) - 1)) + ds[Len(ds)]

\* Python's str < str on digit strings: lexicographic.
RECURSIVE LexLess(_, _)
LexLess(a, b) ==
  IF b = <<>> THEN FALSE
  ELSE IF a = <<>> THEN TRUE
  ELSE IF a[1] # b[1] THEN a[1] < b[1]
  ELSE LexLess(Tail(a), Tail(b))

\* The key comparison of each loader's sort.  The server compares
\* int(m["doc_id"]); the command-line tool compares m["doc_id"] itself: two
\* integers by value, two strings lexicographically.
KeyLess(who, a, b) ==
  IF who = "cli" /\ a.doc_id.t = "str"
  THEN LexLess(a.doc_id.digits, b.doc_id.digits)
  ELSE DigitsValue(a.doc_id.digits) < DigitsValue(b.doc_id.digits)

\* list.sort is stable: insert x after every element that is not greater.
RECURSIVE InsertSorted(_, _, _)
InsertSorted(x, s, who) ==
  IF s = <<>> THEN <<x>>
  ELSE IF KeyLess(who, x, s[1]) THEN <<x>> \o s
  ELSE <<s[1]>> \o InsertSorted(x, Tail(s), who)

RECURSIVE StableSort(_, _)
StableSort(s, who) ==
  IF s = <<>> THEN <<>>
  ELSE InsertSorted(s[Len(s)], StableSort(SubSeq(s, 1, Len(s) - 1), who), who)

\* ------------------------------------------------------------- load helpers
Failed == [ok |-> FALSE, metas |-> <<>>]
Loaded(ms) == [ok |-> TRUE, metas |-> ms]

\* The read loop, skipping a line that does not parse instead of raising.
RECURSIVE ReadLinesSkipBad(_, _)
ReadLinesSkipBad(file, i) ==
  IF i > Len(file) THEN Loaded(<<>>)
  ELSE LET rest == ReadLinesSkipBad(file, i + 1)
       IN IF file[i].kind = "rec"
          THEN Loaded(<<ParseLine(file[i], i)>> \o rest.metas)
          ELSE rest

\* The read loop of both loaders from line i on: a blank line is skipped,
\* json.loads raises on a line that does not parse, a record is appended.
RECURSIVE ReadLines(_, _)
ReadLines(file, i) ==
  IF i > Len(file) THEN Loaded(<<>>)
  ELSE IF file[i].kind = "blank" THEN ReadLines(file, i + 1)
  ELSE IF file[i].kind = "bad" THEN Failed
  ELSE LET rest == ReadLines(file, i + 1)
       IN IF rest.ok
          THEN Loaded(<<ParseLine(file[i], i)>> \o rest.metas)
          ELSE Failed

\* The server's guard: metas and isinstance(metas[0], dict) and
\* "doc_id" in metas[0].
SrvNeverSorts(ms) == FALSE
SrvShouldSort(ms) == ms # <<>> /\ ms[1].doc_id.t # "absent"

\* int(m["doc_id"]) raises for a record without the key.
SrvKeyRaises(ms) == \E i \in 1..Len(ms) : ms[i].doc_id.t = "absent"

\* metas.sort(key=lambda m: int(m["doc_id"])) under try/except: pass.
\* list.sort computes every key before it moves an element, so a raising key
\* leaves the list in file order.
SrvSortMetas(ms) ==
  IF ~SrvShouldSort(ms) THEN ms
  ELSE IF SrvKeyRaises(ms) THEN ms
  ELSE StableSort(ms, "srv")

\* m["doc_id"] raises KeyError for a record without the key; comparing a str
\* key with an int key raises TypeError (a sort of two or more elements
\* compares every element with some other).
CliSortRaises(ms) ==
  \/ \E i \in 1..Len(ms) : ms[i].doc_id.t = "absent"
  \/ \E i, j \in 1..Len(ms) : ms[i].doc_id.t # ms[j].doc_id.t

\* metas.sort(key=lambda m: m["doc_id"]) of load_meta.
CliSortMetas(ms) ==
  IF CliSortRaises(ms) THEN Failed ELSE Loaded(StableSort(ms, "cli"))

\* ------------------------------------------------------- bm25s, as called
None == "none"

\* Stopword tags a caller may pass: none, German, and a tag bm25s does not know.
SwTags == {None, "de", "xx"}

\* The German stopword list, as far as the queries below use it.
StopwordsDe == {"und"}

\* A query text, as the words bm25s.tokenize splits it into.
Queries == {<<"adel">>, <<"und">>}

\* The documents of an index of n documents, as the terms indexed for each
\* (the index is built without stopword removal).
CorpusTerms == <<{"adel", "und"}, {"titel"}, {"adel", "titel"}, {"und"}>>

RECURSIVE DropStopwords(_, _)
DropStopwords(words, stop) ==
  IF words = <<>> THEN <<>>
  ELSE IF words[1] \in stop THEN DropStopwords(Tail(words), stop)
  ELSE <<words[1]>> \o DropStopwords(Tail(words), stop)

\* bm25s.tokenize(query, stopwords=sw): raises ValueError on an unknown tag.
Tokenize(words, sw) ==
  IF sw = None THEN [ok |-> TRUE, tokens |-> words]
  ELSE IF sw = "de" THEN [ok |-> TRUE, tokens |-> DropStopwords(words, StopwordsDe)]
  ELSE [ok |-> FALSE, tokens |-> <<>>]

\* The score of document d (0-based) for the tokens: positive exactly when
\* the document holds a query token (the number of token matches stands for
\* the BM25 sum, which no front end inspects).
Score(tokens, d) ==
  Cardinality({i \in 1..Len(tokens) : tokens[i] \in CorpusTerms[d + 1]})

Hit(tokens, d) == [doc |-> d, score |-> Score(tokens, d)]

\* The best document of a non-empty set: highest score, then lowest index.
Best(tokens, ds) ==
  CHOOSE d \in ds : \A e \in ds :
    \/ Score(tokens, d) > Score(tokens, e)
    \/ Score(tokens, d) = Score(tokens, e) /\ d <= e

\* Every document of ds, best first: bm25s scores all documents, matching
\* or not.
RECURSIVE Ranking(_, _)
Ranking(tokens, ds) ==
  IF ds = {} THEN <<>>
  ELSE LET b == Best(tokens, ds)
       IN <<Hit(tokens, b)>> \o Ranking(tokens, ds \ {b})

\* Only the documents that hold a query token.
Candidates(tokens, n) == {d \in 0..(n - 1) : Score(tokens, d) > 0}

RECURSIVE Take(_, _)
Take(s, k) == IF k <= 0 \/ s = <<>> THEN <<>> ELSE <<s[1]>> \o Take(Tail(s), k - 1)

\* retrieve returning the matching documents only, no more than k.
RetrieveCandidatesOnly(tokens, k, n) ==
  [ok |-> TRUE, docs |-> Take(Ranking(tokens, Candidates(tokens, n)), k)]

\* retriever.retrieve(q_tokens, k=topk), docs[0] zipped with scores[0], for
\* k >= 1: the k best of all n documents (arrays of shape (1, k)), and
\* ValueError when k exceeds the number of documents.
Retrieve(tokens, k, n) ==
  IF k > n THEN [ok |-> FALSE, docs |-> <<>>]
  ELSE [ok |-> TRUE, docs |-> Take(Ranking(tokens, 0..(n - 1)), k)]

\* bm25s.BM25.load(dir, load_corpus=False) loading whatever is there.
BM25LoadUnchecked(exists, n) == [ok |-> TRUE, n |-> n]

\* bm25s.BM25.load(dir, load_corpus=False): raises when an index file is
\* absent, else the retriever over the n documents.
BM25Load(exists, n) == [ok |-> exists, n |-> IF exists THEN n ELSE 0]

\* sw = req.stopwords if req.stopwords is not None else DEFAULT_STOPWORDS
AlwaysDefault(reqsw, dflt) == dflt
ChooseSw(reqsw, dflt) == IF reqsw # None THEN reqsw ELSE dflt

\* The server's join skipping document 0.
JoinMetaFromOne(ms, di) == IF 0 < di /\ di < Len(ms) THEN ms[di + 1] ELSE EmptyMeta

\* meta = metas[di] if 0 <= di < len(metas) else {}
JoinMeta(ms, di) == IF 0 <= di /\ di < Len(ms) THEN ms[di + 1] ELSE EmptyMeta

\* The server's result list for the retrieved docs.
RECURSIVE SrvResults(_, _)
SrvResults(ms, docs) ==
  IF docs = <<>> THEN <<>>
  ELSE <<[doc_index |-> docs[1].doc, score |-> docs[1].score,
          meta |-> JoinMeta(ms, docs[1].doc)]>> \o SrvResults(ms, Tail(docs))

\* The command-line tool's hits: m = metas[int(doc_id)] raises IndexError
\* past the end of metas.
CliJoinRaises(ms, docs) == \E i \in 1..Len(docs) : docs[i].doc >= Len(ms)

RECURSIVE CliHits(_, _, _)
CliHits(ms, docs, rank) ==
  IF docs = <<>> THEN <<>>
  ELSE <<[rank |-> rank, score |-> docs[1].score, meta |-> ms[docs[1].doc + 1]]>>
       \o CliHits(ms, Tail(docs), rank + 1)

\* retrieve(retriever, metas, query, topk, stopwords) of the command-line
\* tool: a raise (ok = FALSE) or the hits.
CliRetrieve(ms, n, words, topk, sw) ==
  LET tk == Tokenize(words, sw)
      out == Retrieve(tk.tokens, topk, n)
  IN IF ~tk.ok \/ ~out.ok \/ CliJoinRaises(ms, out.docs)
     THEN [ok |-> FALSE, hits |-> <<>>]
     ELSE [ok |-> TRUE, hits |-> CliHits(ms, out.docs, 1)]

\* ------------------------------------------------------------------- state
VARIABLES
  dirExists,          \* the index directory exists
  metaExists,         \* meta.jsonl exists in it
  indexExists,        \* the BM25S index files exist in it
  metaFile,           \* the lines of meta.jsonl
  indexN,             \* the number of documents the index was built from
  envStopwords,       \* the STOPWORDS environment variable
  srvPc,              \* where the server's module-level code stands
  DEFAULT_STOPWORDS,  \* dsa_bm25_server.DEFAULT_STOPWORDS
  metas,              \* dsa_bm25_server.metas
  retriever,          \* dsa_bm25_server.retriever
  calls,              \* the /search calls in flight, one per client
  cliPc,              \* where query_bm25.main stands
  cliArgs,            \* args of main
  cliMetas,           \* metas of main
  cliRetriever,       \* retriever of main
  cliOut              \* the hits last printed

env == <<dirExists, metaExists, indexExists, metaFile, indexN, envStopwords>>
srv == <<srvPc, DEFAULT_STOPWORDS, metas, retriever, calls>>
cli == <<cliPc, cliArgs, cliMetas, cliRetriever, cliOut>>
vars == <<env, srv, cli>>

\* The clients whose /search calls the thread pool runs side by side.
Clients == {"c1", "c2"}

NoRetriever == [ok |-> FALSE, n |-> 0]
NoReq == [query |-> <<>>, topk |-> 0, stopwords |-> None]
NoResp == [status |-> 0, stopwords |-> None, results |-> <<>>]
IdleCall ==
  [st |-> "idle", req |-> NoReq, sw |-> None, q_tokens |-> <<>>,
   docs |-> <<>>, resp |-> NoResp]
NoQuery == [given |-> FALSE, words |-> <<>>]
Given(q) == [given |-> TRUE, words |-> q]
DefaultArgs == [query |-> NoQuery, topk |-> TopkDefault, stopwords |-> None]

\* The index directories a run may find.
EnvOk(lines) ==
  /\ dirExists = TRUE /\ metaExists = TRUE /\ indexExists = TRUE
  /\ metaFile \in SeqsUpTo(lines, MaxLines)
  /\ indexN \in 1..MaxDocs
EnvBroken ==
  /\ metaFile = <<>> /\ indexN = 1
  /\ \/ dirExists = FALSE /\ metaExists = FALSE /\ indexExists = FALSE
     \/ dirExists = TRUE /\ metaExists = FALSE /\ indexExists = TRUE
     \/ dirExists = TRUE /\ metaExists = TRUE /\ indexExists = FALSE

SrvInit ==
  /\ DEFAULT_STOPWORDS = None /\ metas = <<>> /\ retriever = NoRetriever
  /\ calls = [c \in Clients |-> IdleCall]
CliInit ==
  /\ cliArgs = DefaultArgs /\ cliMetas = <<>> /\ cliRetriever = NoRetriever
  /\ cliOut = <<>>

\* One front end is started on an index directory.
Init ==
  /\ EnvOk(ServeLines) \/ EnvBroken
  /\ envStopwords \in {None, "de"}
  /\ SrvInit /\ CliInit
  /\ \/ srvPc = "config" /\ cliPc = "off"
     \/ srvPc = "off" /\ cliPc = "args"

\* ------------------------------------------------------ server, start-up
\* DEFAULT_STOPWORDS = os.environ.get("STOPWORDS", None)
SrvConfig ==
  /\ srvPc = "config"
  /\ DEFAULT_STOPWORDS' = envStopwords
  /\ srvPc' = "checkdir"
  /\ UNCHANGED <<env, cli, metas, retriever, calls>>

\* if not index_path.exists(): raise RuntimeError
SrvCheckDir ==
  /\ srvPc = "checkdir"
  /\ \/ dirExists /\ srvPc' = "checkmeta"
     \/ ~dirExists /\ srvPc' = "failed"
  /\ UNCHANGED <<env, cli, DEFAULT_STOPWORDS, metas, retriever, calls>>

\* if not meta_path.exists(): raise RuntimeError
SrvCheckMeta ==
  /\ srvPc = "checkmeta"
  /\ \/ metaExists /\ srvPc' = "read"
     \/ ~metaExists /\ srvPc' = "failed"
  /\ UNCHANGED <<env, cli, DEFAULT_STOPWORDS, metas, retriever, calls>>

\* the read loop over meta.jsonl
SrvReadMeta ==
  /\ srvPc = "read"
  /\ LET r == ReadLines(metaFile, 1)
     IN \/ r.ok /\ metas' = r.metas /\ srvPc' = "sort"
        \/ ~r.ok /\ metas' = metas /\ srvPc' = "failed"
  /\ UNCHANGED <<env, cli, DEFAULT_STOPWORDS, retriever, calls>>

\* the sort by doc_id, with its fallback
SrvSort ==
  /\ srvPc = "sort"
  /\ metas' = SrvSortMetas(metas)
  /\ srvPc' = "loadindex"
  /\ UNCHANGED <<env, cli, DEFAULT_STOPWORDS, retriever, calls>>

\* retriever = bm25s.BM25.load(...); then the app is defined and served
SrvLoadIndex ==
  /\ srvPc = "loadindex"
  /\ LET r == BM25Load(indexExists, indexN)
     IN \/ r.ok /\ retriever' = r /\ srvPc' = "serving"
        \/ ~r.ok /\ retriever' = retriever /\ srvPc' = "failed"
  /\ UNCHANGED <<env, cli, DEFAULT_STOPWORDS, metas, calls>>

\* ------------------------------------------------------- server, /search
Error500 == [status |-> 500, stopwords |-> None, results |-> <<>>]

\* search, to the retrieve call: sw, q_tokens, docs; an exception of
\* tokenize or retrieve is caught and answered with status 500.
SearchBegin(c) ==
  /\ srvPc = "serving"
  /\ calls[c].st = "idle"
  /\ \E q \in Queries, k \in 1..MaxK, s \in SwTags :
       LET req == [query |-> q, topk |-> k, stopwords |-> s]
           sw == ChooseSw(s, DEFAULT_STOPWORDS)
           tk == Tokenize(q, sw)
       IN \/ /\ ~tk.ok
             /\ calls' = [calls EXCEPT ![c] =
                  [st |-> "done", req |-> req, sw |-> sw, q_tokens |-> <<>>,
                   docs |-> <<>>, resp |-> Error500]]
          \/ /\ tk.ok
             /\ ~Retrieve(tk.tokens, k, retriever.n).ok
             /\ calls' = [calls EXCEPT ![c] =
                  [st |-> "done", req |-> req, sw |-> sw,
                   q_tokens |-> tk.tokens, docs |-> <<>>, resp |-> Error500]]
          \/ /\ tk.ok
             /\ Retrieve(tk.tokens, k, retriever.n).ok
             /\ calls' = [calls EXCEPT ![c] =
                  [st |-> "retrieved", req |-> req, sw |-> sw,
                   q_tokens |-> tk.tokens,
                   docs |-> Retrieve(tk.tokens, k, retriever.n).docs,
                   resp |-> NoResp]]
  /\ UNCHANGED <<env, cli, srvPc, DEFAULT_STOPWORDS, metas, retriever>>

\* search, the join loop and the return
SearchJoin(c) ==
  /\ calls[c].st = "retrieved"
  /\ calls' = [calls EXCEPT ![c].st = "done",
                            ![c].resp = [status |-> 200, stopwords |-> calls[c].sw,
                                         results |-> SrvResults(metas, calls[c].docs)]]
  /\ UNCHANGED <<env, cli, srvPc, DEFAULT_STOPWORDS, metas, retriever>>

\* the response is sent and the call's locals are gone
SearchReturn(c) ==
  /\ calls[c].st = "done"
  /\ calls' = [calls EXCEPT ![c] = IdleCall]
  /\ UNCHANGED <<env, cli, srvPc, DEFAULT_STOPWORDS, metas, retriever>>

\* ------------------------------------------------------ command-line tool
\* parse_args
CliParseArgs ==
  /\ cliPc = "args"
  /\ \E q \in {NoQuery} \cup {Given(w) : w \in Queries},
        k \in 1..MaxK, s \in SwTags :
       cliArgs' = [query |-> q, topk |-> k, stopwords |-> s]
  /\ cliPc' = "checkdir"
  /\ UNCHANGED <<env, srv, cliMetas, cliRetriever, cliOut>>

\* if not index_dir.exists(): raise SystemExit
CliCheckDir ==
  /\ cliPc = "checkdir"
  /\ \/ dirExists /\ cliPc' = "checkmeta"
     \/ ~dirExists /\ cliPc' = "failed"
  /\ UNCHANGED <<env, srv, cliArgs, cliMetas, cliRetriever, cliOut>>

\* if not meta_path.exists(): raise SystemExit
CliCheckMeta ==
  /\ cliPc = "checkmeta"
  /\ \/ metaExists /\ cliPc' = "read"
     \/ ~metaExists /\ cliPc' = "failed"
  /\ UNCHANGED <<env, srv, cliArgs, cliMetas, cliRetriever, cliOut>>

\* load_meta, the read loop
CliReadMeta ==
  /\ cliPc = "read"
  /\ LET r == ReadLines(metaFile, 1)
     IN \/ r.ok /\ cliMetas' = r.metas /\ cliPc' = "sort"
        \/ ~r.ok /\ cliMetas' = cliMetas /\ cliPc' = "failed"
  /\ UNCHANGED <<env, srv, cliArgs, cliRetriever, cliOut>>

\* load_meta, the sort and the return
CliSort ==
  /\ cliPc = "sort"
  /\ LET r == CliSortMetas(cliMetas)
     IN \/ r.ok /\ cliMetas' = r.metas /\ cliPc' = "loadindex"
        \/ ~r.ok /\ cliMetas' = cliMetas /\ cliPc' = "failed"
  /\ UNCHANGED <<env, srv, cliArgs, cliRetriever, cliOut>>

\* retriever = bm25s.BM25.load(...)
CliLoadIndex ==
  /\ cliPc = "loadindex"
  /\ LET r == BM25Load(indexExists, indexN)
     IN \/ r.ok /\ cliRetriever' = r /\ cliPc' = "ready"
        \/ ~r.ok /\ cliRetriever' = cliRetriever /\ cliPc' = "failed"
  /\ UNCHANGED <<env, srv, cliArgs, cliMetas, cliOut>>

\* if args.query: one retrieve, the hits printed, the process ends
CliOneShot ==
  /\ cliPc = "ready"
  /\ cliArgs.query.given
  /\ LET r == CliRetrieve(cliMetas, cliRetriever.n, cliArgs.query.words,
                          cliArgs.topk, cliArgs.stopwords)
     IN \/ r.ok /\ cliOut' = r.hits /\ cliPc' = "exit"
        \/ ~r.ok /\ cliOut' = cliOut /\ cliPc' = "aborted"
  /\ UNCHANGED <<env, srv, cliArgs, cliMetas, cliRetriever>>

\* else: interactive_loop
CliEnterLoop ==
  /\ cliPc = "ready"
  /\ ~cliArgs.query.given
  /\ cliPc' = "loop"
  /\ UNCHANGED <<env, srv, cliArgs, cliMetas, cliRetriever, cliOut>>

\* interactive_loop, one query typed: retrieve is not guarded, so what it
\* raises ends the loop and the process
CliLoopQuery ==
  /\ cliPc = "loop"
  /\ \E q \in Queries :
       LET r == CliRetrieve(cliMetas, cliRetriever.n, q,
                            cliArgs.topk, cliArgs.stopwords)
       IN \/ r.ok /\ cliOut' = r.hits /\ cliPc' = "loop"
          \/ ~r.ok /\ cliOut' = cliOut /\ cliPc' = "crashed"
  /\ UNCHANGED <<env, srv, cliArgs, cliMetas, cliRetriever>>

\* interactive_loop: empty input, exit, quit, EOF
CliLoopQuit ==
  /\ cliPc = "loop"
  /\ cliPc' = "exit"
  /\ UNCHANGED <<env, srv, cliArgs, cliMetas, cliRetriever, cliOut>>

\* ------------------------------------------------------------------ specs
SrvLoad ==
  SrvConfig \/ SrvCheckDir \/ SrvCheckMeta \/ SrvReadMeta \/ SrvSort \/ SrvLoadIndex

CliLoad ==
  CliCheckDir \/ CliCheckMeta \/ CliReadMeta \/ CliSort \/ CliLoadIndex

Next ==
  \/ SrvLoad
  \/ \E c \in Clients : SearchBegin(c) \/ SearchJoin(c) \/ SearchReturn(c)
  \/ CliParseArgs
  \/ CliLoad
  \/ CliOneShot \/ CliEnterLoop \/ CliLoopQuery \/ CliLoopQuit

Spec == Init /\ [][Next]_vars

\* Both front ends are started on the same index directory and load it.
InitLoad ==
  /\ EnvOk(LoadLines) \/ EnvBroken
  /\ envStopwords \in {None, "de"}
  /\ SrvInit /\ CliInit
  /\ srvPc = "config" /\ cliPc = "checkdir"

NextLoad == SrvLoad \/ CliLoad

SpecLoad == InitLoad /\ [][NextLoad]_vars

\* ----------------------------------------------------------------- claims
SrvLoadDone == srvPc \in {"loadindex", "serving"}
CliMetaDone ==
  cliPc \in {"loadindex", "ready", "loop", "exit", "aborted", "crashed"}
CliLoadDone == cliPc \in {"ready", "loop", "exit", "aborted", "crashed"}
Answered(c) == calls[c].st = "done" /\ calls[c].resp.status = 200
RecLinesOf(file) == {i \in 1..Len(file) : file[i].kind = "rec"}
NoBadLine(file) == \A i \in 1..Len(file) : file[i].kind # "bad"
HasId(m) == m.doc_id.t # "absent"
InIdOrder(ms) ==
  \A i \in 1..Len(ms) : HasId(ms[i]) /\ DigitsValue(ms[i].doc_id.digits) = i - 1

\* C1: a front end that has finished loading (and so may serve a search)
\* holds exactly as many metadata records as the index has documents: a
\* count mismatch makes load fail.
C1_CountMismatchIsFatal ==
  /\ srvPc = "serving" => Len(metas) = retriever.n
  /\ CliLoadDone => Len(cliMetas) = cliRetriever.n

\* The ordering by doc_id can be established: every record carries one and
\* the ids are 0..n-1, each once.
IdsArePermutation(ms) ==
  /\ \A i \in 1..Len(ms) : HasId(ms[i])
  /\ \A d \in 0..(Len(ms) - 1) :
       Cardinality({i \in 1..Len(ms) : DigitsValue(ms[i].doc_id.digits) = d}) = 1

\* C2: when records carry doc_id, a load that went through left record[i]
\* with doc_id i for every i; a sidecar in which some record lacks doc_id or
\* two records share one never gets through load.
C2_ReorderedOrFatal ==
  LET carried(ms) == \E i \in 1..Len(ms) : HasId(ms[i])
      missing(ms) == \E i \in 1..Len(ms) : ~HasId(ms[i])
      shared(ms) == \E i, j \in 1..Len(ms) :
                      /\ i # j /\ HasId(ms[i]) /\ HasId(ms[j])
                      /\ DigitsValue(ms[i].doc_id.digits)
                           = DigitsValue(ms[j].doc_id.digits)
      holds(ms) == carried(ms) =>
                     /\ ~missing(ms) /\ ~shared(ms)
                     /\ IdsArePermutation(ms) => InIdOrder(ms)
  IN /\ SrvLoadDone => holds(metas)
     /\ CliMetaDone => holds(cliMetas)

\* C3 as stated: after the read loop no line was skipped, so every loaded
\* record sits at the position of its line in meta.jsonl.
C3_RecordAtLinePosition ==
  /\ srvPc = "sort" => \A i \in 1..Len(metas) : metas[i].line = i
  /\ cliPc = "sort" => \A i \in 1..Len(cliMetas) : cliMetas[i].line = i

ReadInOrder(ms, file) ==
  /\ Len(ms) = Cardinality(RecLinesOf(file))
  /\ \A i \in 1..Len(ms) :
       /\ ms[i].line \in RecLinesOf(file)
       /\ ms[i].doc_id = file[ms[i].line].id
  /\ \A i, j \in 1..Len(ms) : i < j => ms[i].line < ms[j].line

\* C3 amended: a line that does not parse is fatal (no load gets past a
\* sidecar that holds one), blank lines are skipped, and after the read loop
\* the records are the non-blank lines in file order.
C3_NonBlankLinesInOrder ==
  /\ srvPc \in {"sort", "loadindex", "serving"} => NoBadLine(metaFile)
  /\ CliMetaDone \/ cliPc = "sort" => NoBadLine(metaFile)
  /\ srvPc = "sort" => ReadInOrder(metas, metaFile)
  /\ cliPc = "sort" => ReadInOrder(cliMetas, metaFile)

\* C3 witness: the server read a sidecar with a blank line before a record.
C3_Witness ==
  /\ srvPc = "sort"
  /\ \E i \in 1..Len(metas) : metas[i].line > i

\* C4: whenever a search is being served (or the front end is ready to
\* serve one), the directory check, the sidecar load and the index load
\* have all succeeded.
C4_NoPartialLoad ==
  LET complete(ms, r) ==
        /\ dirExists /\ metaExists /\ indexExists
        /\ NoBadLine(metaFile)
        /\ Len(ms) = Cardinality(RecLinesOf(metaFile))
        /\ r.ok /\ r.n = indexN
  IN /\ (srvPc = "serving" \/ \E c \in Clients : calls[c].st # "idle")
          => complete(metas, retriever)
     /\ CliLoadDone => complete(cliMetas, cliRetriever)

\* C4 witness: a search was answered.
C4_Witness == \E c \in Clients : Answered(c) /\ calls[c].resp.results # <<>>

\* C5: no answered search holds a result whose doc index lies outside the
\* metadata array, joined to a substitute (empty) record.
C5_NoSubstituteMeta ==
  \A c \in Clients : Answered(c) =>
    \A i \in 1..Len(calls[c].resp.results) :
      /\ calls[c].resp.results[i].doc_index < Len(metas)
      /\ calls[c].resp.results[i].meta # EmptyMeta

C7_FaultIsRequestScoped ==
  /\ (\E c \in Clients : calls[c].st = "done" /\ calls[c].resp.status = 500)
       => srvPc = "serving"
  /\ cliPc # "crashed"

\* C8: a call tokenizes with its own stopword setting when it gives one and
\* with the default captured at start-up when it gives none, reports the
\* setting it used, and leaves the default as captured.
C8_StopwordSelection ==
  /\ srvPc \notin {"off", "config"} => DEFAULT_STOPWORDS = envStopwords
  /\ \A c \in Clients : calls[c].st # "idle" =>
       LET used == IF calls[c].req.stopwords # None
                   THEN calls[c].req.stopwords ELSE envStopwords
           kept(w) == w \notin StopwordsDe
       IN /\ calls[c].sw = used
          /\ (calls[c].st = "retrieved" \/ Answered(c)) =>
               /\ used \in {None, "de"}
               /\ used = None => calls[c].q_tokens = calls[c].req.query
               /\ used = "de" => calls[c].q_tokens = SelectSeq(calls[c].req.query, kept)
          /\ Answered(c) => calls[c].resp.stopwords = used

\* C8 witness: one call answered under its own "de", another answered under
\* the default (none), side by side.
C8_Witness ==
  /\ envStopwords = None
  /\ Answered("c1") /\ calls["c1"].req.stopwords = "de"
  /\ calls["c1"].req.query = <<"und">> /\ calls["c1"].q_tokens = <<>>
  /\ Answered("c2") /\ calls["c2"].req.stopwords = None
  /\ calls["c2"].req.query = <<"und">> /\ calls["c2"].q_tokens = <<"und">>

\* What one search returns when it runs alone on the loaded state.
AloneResponse(req) ==
  LET ms == SrvSortMetas(ReadLines(metaFile, 1).metas)
      sw == IF req.stopwords # None THEN req.stopwords ELSE envStopwords
      tk == Tokenize(req.query, sw)
      out == Retrieve(tk.tokens, req.topk, indexN)
      row(h) == [doc_index |-> h.doc, score |-> h.score,
                 meta |-> IF h.doc < Len(ms) THEN ms[h.doc + 1] ELSE EmptyMeta]
  IN IF ~tk.ok \/ ~out.ok THEN Error500
     ELSE [status |-> 200, stopwords |-> sw,
           results |-> [i \in 1..Len(out.docs) |-> row(out.docs[i])]]

\* C9: while calls run side by side the loaded state stays what load left,
\* and every finished call holds the response it produces alone.
C9_SearchReadsOnly ==
  srvPc = "serving" =>
    /\ metas = SrvSortMetas(ReadLines(metaFile, 1).metas)
    /\ retriever = [ok |-> TRUE, n |-> indexN]
    /\ DEFAULT_STOPWORDS = envStopwords
    /\ \A c \in Clients : calls[c].st = "done" =>
         calls[c].resp = AloneResponse(calls[c].req)

\* C9 witness: two different calls finished side by side, both with results.
C9_Witness ==
  /\ Answered("c1") /\ Answered("c2")
  /\ calls["c1"].req # calls["c2"].req
  /\ calls["c1"].resp.results # <<>> /\ calls["c2"].resp.results # <<>>
  /\ calls["c1"].resp.results # calls["c2"].resp.results

BothMetaDone == SrvLoadDone /\ CliMetaDone

\* C10 as stated: when both front ends load the same meta.jsonl without
\* error, they hold the same sequence of records.
C10_SameAlignment == BothMetaDone => metas = cliMetas

\* C10 amended: they hold the same sequence when every doc_id of the
\* sidecar is an integer.
C10_SameAlignmentIntIds ==
  (BothMetaDone /\ \A i \in 1..Len(metas) : metas[i].doc_id.t = "int")
    => metas = cliMetas

\* C10 witness: both loaded a sidecar of integer ids that was out of order.
C10_Witness ==
  /\ BothMetaDone
  /\ Len(metas) >= 2
  /\ \A i \in 1..Len(metas) : metas[i].doc_id.t = "int"
  /\ metas[1].line > metas[2].line

====
